---- MODULE Spec2Model ----
(***************************************************************************)
(* Model of libsolidity/analysis/FunctionCallGraph.cpp:                    *)
(* FunctionCallGraphBuilder::create and the AST visitor it drives.         *)
(*                                                                         *)
(* The recursive AST walk is modelled with an explicit stack of body       *)
(* traversals.  One action per visitor callback (visit(Identifier),        *)
(* visit(NewExpression), visit(MemberAccess), endVisit(FunctionCall)), one *)
(* per segment of create() between two traversals, and one for the return  *)
(* of accept() to the function that started the traversal.                 *)
(*                                                                         *)
(* The input (an annotated contract AST) is chosen in Init.                *)
(***************************************************************************)
EXTENDS Integers, Sequences, FiniteSets, TLC

(***************************************************************************)
(* Bounds of the input.                                                    *)
(***************************************************************************)
\* Length of the linearized base list of the contract handed to create().
NumContracts == 3
\* Largest number of AST nodes of interest placed in the bodies of one input.
MaxItems == 3

(***************************************************************************)
(* Nodes.  FunctionCallGraphBuilder::Node is variant<ASTNode const*,       *)
(* SpecialNode>; callees are ASTNode const*.  Every node is a triple       *)
(* <<kind, contract, name>>.                                               *)
(***************************************************************************)
Unset == <<"special", 0, "Unset">>
CreationRoot == <<"special", 0, "CreationRoot">>
CreationDispatch == <<"special", 0, "CreationDispatch">>
RuntimeDispatch == <<"special", 0, "RuntimeDispatch">>

\* FunctionDefinition n declared in contract c.
Fun(c, n) == <<"fun", c, n>>
\* The constructor (a FunctionDefinition) of contract c.
Ctor(c) == <<"ctor", c, "constructor">>
\* A public state variable (VariableDeclaration) of contract c.
Var(c, n) == <<"var", c, n>>
\* A FunctionCall expression.
CallExpr(n) == <<"call", 0, n>>
\* The two non-callable things create() traverses for every contract.
StateVarsOf(c) == <<"stateVars", c, "">>
BaseArgsOf(c) == <<"baseArgs", c, "">>

(***************************************************************************)
(* The input AST.                                                          *)
(***************************************************************************)
\* _contract.annotation().linearizedBaseContracts, most derived first;
\* contract 1 is the contract handed to create().
linearizedBaseContracts == [i \in 1..NumContracts |-> i]
Contracts == 1..NumContracts

\* The most base contract declares f and g, g without implementation; the
\* contract below it overrides f, the most derived contract implements g.
Functions ==
    {Fun(NumContracts, "f"), Fun(NumContracts - 1, "f"),
     Fun(NumContracts, "g"), Fun(1, "g")}
FallbackFn == Fun(1, "fallback")
ReceiveFn == Fun(1, "receive")

\* AST nodes the visitor reacts to.
\* An Identifier that refers to a variable (no CallableDeclaration).
IdVar ==
    [kind |-> "Identifier", lookup |-> "None", c |-> 0, n |-> "x", flag |-> FALSE]
\* g(): Identifier referring to a callable, annotation().calledDirectly.
Call(n) ==
    [kind |-> "Identifier", lookup |-> "Virtual", c |-> 0, n |-> n, flag |-> TRUE]
\* g taken as a value: calledDirectly is false.
Value(n) ==
    [kind |-> "Identifier", lookup |-> "Virtual", c |-> 0, n |-> n, flag |-> FALSE]
\* A.f(): member access on a contract type name.
Static(c, n) ==
    [kind |-> "MemberAccess", lookup |-> "Static", c |-> c, n |-> n, flag |-> TRUE]
\* super.f() written in contract c.
Super(c, n) ==
    [kind |-> "MemberAccess", lookup |-> "Super", c |-> c, n |-> n, flag |-> TRUE]
\* new Other(...): flag tells whether the type name is a contract type.
New(n) ==
    [kind |-> "NewExpression", lookup |-> "None", c |-> 0, n |-> n, flag |-> TRUE]
\* new uint[](...): the type name is no contract type.
NewArray ==
    [kind |-> "NewExpression", lookup |-> "None", c |-> 0, n |-> "uint[]", flag |-> FALSE]
\* ptr(): call through an internal function value without declaration.
Indirect(n) ==
    [kind |-> "FunctionCall", lookup |-> "Internal", c |-> 0, n |-> n, flag |-> FALSE]

\* What may occur in each body, in source order.
Menu(site) ==
    CASE site[1] = "stateVars" -> <<Value("g")>>
      \* the most base contract has no base to pass arguments to
      [] site[1] = "baseArgs" ->
            IF site[2] = NumContracts THEN <<>> ELSE <<Call("f")>>
      [] site[1] = "ctor" -> <<IdVar, Call("g"), Indirect("e0")>>
      [] site = Fun(NumContracts, "f") -> <<Call("f"), NewArray>>
      [] site = Fun(NumContracts - 1, "f") ->
            <<Call("g"), Call("f"), Super(NumContracts - 1, "f")>>
      [] site = Fun(1, "g") ->
            <<Call("g"), Value("f"), Static(NumContracts, "f"),
              New("Other"), Indirect("e1")>>
      [] site = FallbackFn -> <<IdVar, Call("g")>>
      [] site = ReceiveFn -> <<IdVar>>
      [] OTHER -> <<>>

Sites ==
    {StateVarsOf(c) : c \in Contracts} \cup {BaseArgsOf(c) : c \in Contracts}
    \cup {Ctor(c) : c \in Contracts} \cup Functions \cup {FallbackFn, ReceiveFn}

\* A placement <<site, k>> puts the k-th node of the site's menu in its body.
Placements == UNION {{<<s, k>> : k \in 1..Len(Menu(s))} : s \in Sites}

RECURSIVE SubsetsUpTo(_, _)
SubsetsUpTo(S, k) ==
    IF k = 0 THEN {{}}
    ELSE LET smaller == SubsetsUpTo(S, k - 1)
         IN  smaller \cup {T \cup {x} : T \in smaller, x \in S}

\* _contract.interfaceFunctionList(): the order is that of the selectors.
InterfaceLists ==
    LET f == Fun(NumContracts - 1, "f")
        g == Fun(1, "g")
    IN  {<<>>, <<f>>, <<f, g>>, <<g, f>>, <<Var(1, "x"), g>>}

Programs ==
    [sel : SubsetsUpTo(Placements, MaxItems), iface : InterfaceLists]

\* The inputs whose nodes all lie in the bodies of the functions and of the
\* constructor of the most derived contract: the inputs with calls in a cycle.
CallPlacements ==
    UNION {{<<s, k>> : k \in 1..Len(Menu(s))} : s \in Functions \cup {Ctor(1)}}
CallPrograms ==
    [sel : SubsetsUpTo(CallPlacements, MaxItems), iface : InterfaceLists]

VARIABLES
    program,            \* the input AST (never changes)
    m_contract,         \* contract being assembled, 0 is nullptr
    edges,              \* m_graph->edges
    createdContracts,   \* m_graph->createdContracts
    m_currentNode,
    m_currentDispatch,
    pc,                 \* where create() is
    ctorLevel,          \* visitConstructor: index into the linearization
    ctorStage,          \* visitConstructor: which loop runs next
    ifaceIdx,           \* create(): position of the first loop
    stack,              \* bodies being traversed, innermost last
    acceptLog           \* history: every accept() made, in order

vars == <<program, m_contract, edges, createdContracts, m_currentNode,
          m_currentDispatch, pc, ctorLevel, ctorStage, ifaceIdx, stack,
          acceptLog>>

\* The body of a site: the placed nodes of its menu, in menu order.
BodyOfIn(p, site) ==
    LET m == Menu(site)
        picked == SelectSeq([k \in 1..Len(m) |-> k],
                            LAMBDA k : <<site, k>> \in p.sel)
    IN  [i \in 1..Len(picked) |-> m[picked[i]]]
BodyOf(site) == BodyOfIn(program, site)

\* _contract.constructor(), fallbackFunction(), receiveFunction().
HasCtor(c) == \E k \in 1..Len(Menu(Ctor(c))) : <<Ctor(c), k>> \in program.sel
HasFallback == \E k \in 1..Len(Menu(FallbackFn)) : <<FallbackFn, k>> \in program.sel
HasReceive == \E k \in 1..Len(Menu(ReceiveFn)) : <<ReceiveFn, k>> \in program.sel

(***************************************************************************)
(* Helpers of the builder.                                                 *)
(***************************************************************************)
\* The callees of a caller, none if it has no entry.
Callees(E, caller) == IF caller \in DOMAIN E THEN E[caller] ELSE {}

\* Mutation: the sentinel is taken for a node like any other.
nodeSetAlways(node) == TRUE

nodeSet(node) == node # Unset

\* Mutation: an existing entry is overwritten.
addReplacing(E, caller, callee) ==
    IF caller \notin DOMAIN E
        THEN E @@ (caller :> {callee})
        ELSE [E EXCEPT ![caller] = {callee}]

\* FunctionCallGraphBuilder::add; E is the edge map.
add(E, caller, callee) ==
    IF caller \notin DOMAIN E
        THEN E @@ (caller :> {callee})
        ELSE [E EXCEPT ![caller] = @ \cup {callee}]

\* add() called once for every element of a set of callees.
addEach(E, caller, callees) ==
    IF callees = {} THEN E
    ELSE IF caller \notin DOMAIN E
        THEN E @@ (caller :> callees)
        ELSE [E EXCEPT ![caller] = @ \cup callees]

\* CallableDeclaration::resolveVirtual(_mostDerivedContract, _searchStart):
\* the first contract of the linearization, from position start on, that
\* declares the name.
resolveVirtualFrom(n, start) ==
    LET found == {i \in start..NumContracts :
                        Fun(linearizedBaseContracts[i], n) \in Functions}
    IN  Fun(linearizedBaseContracts[CHOOSE i \in found : \A j \in found : i <= j], n)

\* Position of a contract in the linearization.
PositionOf(c) == CHOOSE i \in 1..NumContracts : linearizedBaseContracts[i] = c

\* Mutation: the lookup starts at the contract that declares the body which
\* holds the identifier.
identifierTargetFromDeclaringContract(n, mostDerived, site) ==
    resolveVirtualFrom(n, PositionOf(site[2]))

\* visit(Identifier), line 92: callable->resolveVirtual(*m_contract).
\* site is the body that holds the identifier.
identifierTarget(n, mostDerived, site) ==
    resolveVirtualFrom(n, PositionOf(mostDerived))

\* visit(MemberAccess): the declaration handed to processFunction.
memberAccessTarget(item, mostDerived) ==
    IF item.lookup = "Super"
        \* resolveVirtual(*m_contract, contractDefinition().superContract(*m_contract))
        THEN resolveVirtualFrom(item.n, PositionOf(item.c) + 1)
        \* bound functions, C.foo and free functions: the declaration as written
        ELSE Fun(item.c, item.n)

\* Mutation: a callable counts as expanded as soon as it is in the graph at
\* all, as a key or as a callee.
alreadyExpandedAnyNode(E, callable) ==
    callable \in DOMAIN E \/ \E k \in DOMAIN E : callable \in E[k]

\* Mutation: nothing counts as expanded.
alreadyExpandedNever(E, callable) == FALSE

\* processFunction, line 228.
alreadyExpanded(E, callable) == callable \in DOMAIN E

\* Mutation: the dispatch edge is added for direct calls too.
dispatchEdgeAlways(E, dispatch, callable, calledDirectly) ==
    add(E, dispatch, callable)

\* processFunction, lines 231-233.
dispatchEdge(E, dispatch, callable, calledDirectly) ==
    IF ~calledDirectly THEN add(E, dispatch, callable) ELSE E

\* Mutation: caller and callee are swapped.
callerEdgeSwapped(E, previousNode, callable) ==
    IF nodeSet(previousNode) THEN add(E, callable, previousNode) ELSE E

\* visitCallable, lines 182-183.
callerEdge(E, previousNode, callable) ==
    IF nodeSet(previousNode) THEN add(E, previousNode, callable) ELSE E

\* Mutation: the callees are copied the other way round.
mergeDispatchReversed(E) ==
    LET E0 == IF CreationDispatch \in DOMAIN E
                THEN E ELSE E @@ (CreationDispatch :> {})
    IN  addEach(E0, CreationDispatch, Callees(E0, RuntimeDispatch))

\* Mutation: the loop body is lost, only the entry is made.
mergeDispatchEntryOnly(E) ==
    IF CreationDispatch \in DOMAIN E THEN E ELSE E @@ (CreationDispatch :> {})

\* create(), lines 64-65; operator[] makes the CreationDispatch entry.
mergeDispatch(E) ==
    LET E0 == IF CreationDispatch \in DOMAIN E
                THEN E ELSE E @@ (CreationDispatch :> {})
    IN  addEach(E0, RuntimeDispatch, E0[CreationDispatch])

\* Mutation: fallback and receive function are forgotten.
entryPointsInterfaceOnly(iface, hasFallback, hasReceive) ==
    {iface[i] : i \in 1..Len(iface)}

\* create(), lines 68-75.
entryPoints(iface, hasFallback, hasReceive) ==
    {iface[i] : i \in 1..Len(iface)}
    \cup (IF hasFallback THEN {FallbackFn} ELSE {})
    \cup (IF hasReceive THEN {ReceiveFn} ELSE {})

\* Mutation: the edge starts at the current caller.
functionCallEdgeFromCaller(E, item, dispatch, node) ==
    IF item.lookup = "Internal" /\ ~item.flag
        THEN add(E, node, CallExpr(item.n))
        ELSE E

\* endVisit(FunctionCall), lines 165-172; node is m_currentNode.
functionCallEdge(E, item, dispatch, node) ==
    IF item.lookup = "Internal" /\ ~item.flag
        THEN add(E, dispatch, CallExpr(item.n))
        ELSE E

\* Mutation: the created contract is not recorded.
newExpressionNotRecorded(created, item) == created

\* visit(NewExpression), lines 102-103.
newExpressionCreated(created, item) ==
    IF item.flag THEN created \cup {item.n} ELSE created

\* Mutation: the constructor is handled before the base arguments.
nextStageCtorFirst(stage) ==
    CASE stage = "stateVars" -> "constructor"
      [] stage = "constructor" -> "baseArgs"
      [] stage = "baseArgs" -> "stateVars"

\* Mutation: the constructor becomes the current node, as in visitCallable.
constructorCallerIsCtor(node, ctor) == ctor

\* visitConstructor, lines 207-208: m_currentNode is left as it is while the
\* constructor is accepted.
constructorCaller(node, ctor) == node

\* Mutation: the previous node is not restored.
restoredNodeKept(frame, node) == node

\* visitCallable, line 187; visitConstructor restores nothing.
restoredNode(frame, node) ==
    IF frame.via = "visitConstructor" THEN node ELSE frame.previousNode

\* visitConstructor: the order of the three loops of one level.
nextStage(stage) ==
    CASE stage = "stateVars" -> "baseArgs"
      [] stage = "baseArgs" -> "constructor"
      [] stage = "constructor" -> "stateVars"

\* visitConstructor: the recursion runs before the loops, so the levels are
\* handled from the end of the linearization to its start.
firstLevel == NumContracts
nextLevel(level) == level - 1

(***************************************************************************)
(* The stack of traversals.                                                *)
(***************************************************************************)
Top == stack[Len(stack)]
AtItem == stack # <<>> /\ Top.pos <= Len(BodyOf(Top.src))
CurItem == BodyOf(Top.src)[Top.pos]
Advance(s) == [s EXCEPT ![Len(s)].pos = @ + 1]
Frame(src, prev, via) ==
    [src |-> src, pos |-> 1, previousNode |-> prev, via |-> via]
Entry(src) == <<src, m_currentDispatch>>

InitOf(programs) ==
    /\ program \in programs
    /\ m_contract = 0
    /\ edges = <<>>
    /\ createdContracts = {}
    /\ m_currentNode = Unset
    /\ m_currentDispatch = CreationDispatch
    /\ pc = "start"
    /\ ctorLevel = 0
    /\ ctorStage = "stateVars"
    /\ ifaceIdx = 0
    /\ stack = <<>>
    /\ acceptLog = <<>>

Init == InitOf(Programs)
InitCalls == InitOf(CallPrograms)

\* create(), lines 42-53, up to the first loop of the innermost
\* visitConstructor call.
create ==
    /\ pc = "start"
    /\ m_contract' = linearizedBaseContracts[1]
    /\ edges' = <<>>
    /\ createdContracts' = {}
    /\ m_currentNode' = CreationRoot
    /\ m_currentDispatch' = CreationDispatch
    /\ ctorLevel' = firstLevel
    /\ ctorStage' = "stateVars"
    /\ pc' = "creation"
    /\ UNCHANGED <<program, ifaceIdx, stack, acceptLog>>

\* visitCallable, called with the stack s already advanced past the
\* reference; E holds the edges before the call.
visitCallable(E, s, callable, via) ==
    IF callable \in DOMAIN E
        \* solAssert(!m_graph->edges.count(_callable))
        THEN pc' = "aborted"
             /\ UNCHANGED <<edges, m_currentNode, stack, acceptLog>>
        ELSE /\ edges' = callerEdge(E, m_currentNode, callable)
             /\ m_currentNode' = callable
             /\ stack' = Append(s, Frame(callable, m_currentNode, via))
             /\ acceptLog' = Append(acceptLog, Entry(callable))
             /\ UNCHANGED pc

\* processFunction.
processFunction(callable, calledDirectly, via) ==
    IF alreadyExpanded(edges, callable)
        THEN /\ stack' = Advance(stack)
             /\ UNCHANGED <<edges, m_currentNode, acceptLog, pc>>
        ELSE visitCallable(
                dispatchEdge(edges, m_currentDispatch, callable, calledDirectly),
                Advance(stack), callable, via)

\* accept() of something that is not a callable (visitConstructor).
acceptPart(E, site) ==
    /\ edges' = E
    /\ acceptLog' = Append(acceptLog, Entry(site))
    /\ stack' = IF BodyOf(site) = <<>>
                    THEN stack
                    ELSE Append(stack, Frame(site, m_currentNode, "visitConstructor"))

\* visitConstructor, lines 199-200.
visitStateVars ==
    /\ pc = "creation" /\ stack = <<>> /\ ctorLevel >= 1
    /\ ctorStage = "stateVars"
    /\ acceptPart(edges, StateVarsOf(linearizedBaseContracts[ctorLevel]))
    /\ ctorStage' = nextStage(ctorStage)
    /\ UNCHANGED <<program, m_contract, createdContracts, m_currentNode,
                   m_currentDispatch, pc, ctorLevel, ifaceIdx>>

\* visitConstructor, lines 202-203.
visitBaseArgs ==
    /\ pc = "creation" /\ stack = <<>> /\ ctorLevel >= 1
    /\ ctorStage = "baseArgs"
    /\ acceptPart(edges, BaseArgsOf(linearizedBaseContracts[ctorLevel]))
    /\ ctorStage' = nextStage(ctorStage)
    /\ UNCHANGED <<program, m_contract, createdContracts, m_currentNode,
                   m_currentDispatch, pc, ctorLevel, ifaceIdx>>

\* visitConstructor, lines 205-210, and the return to the caller's loops.
visitConstructorBody ==
    /\ pc = "creation" /\ stack = <<>> /\ ctorLevel >= 1
    /\ ctorStage = "constructor"
    /\ LET c == linearizedBaseContracts[ctorLevel]
       IN  IF HasCtor(c)
            THEN /\ acceptPart(add(edges, m_currentNode, Ctor(c)), Ctor(c))
                 /\ m_currentNode' = constructorCaller(m_currentNode, Ctor(c))
            ELSE UNCHANGED <<edges, acceptLog, stack, m_currentNode>>
    /\ ctorStage' = nextStage(ctorStage)
    /\ ctorLevel' = nextLevel(ctorLevel)
    /\ UNCHANGED <<program, m_contract, createdContracts,
                   m_currentDispatch, pc, ifaceIdx>>

\* create(), lines 54-55.
enterRuntime ==
    /\ pc = "creation" /\ stack = <<>> /\ ctorLevel = 0
    /\ m_currentNode' = Unset
    /\ m_currentDispatch' = RuntimeDispatch
    /\ ifaceIdx' = 1
    /\ pc' = "runtime"
    /\ UNCHANGED <<program, m_contract, edges, createdContracts, ctorLevel,
                   ctorStage, stack, acceptLog>>

\* create(), lines 58-61: one iteration of the loop.
visitInterfaceFunction ==
    /\ pc = "runtime" /\ stack = <<>>
    /\ ifaceIdx <= Len(program.iface)
    /\ LET decl == program.iface[ifaceIdx]
       IN  IF decl[1] = "fun" /\ decl \notin DOMAIN edges
            THEN visitCallable(edges, stack, decl, "create")
            ELSE UNCHANGED <<edges, m_currentNode, stack, acceptLog, pc>>
    /\ ifaceIdx' = ifaceIdx + 1
    /\ UNCHANGED <<program, m_contract, createdContracts, m_currentDispatch,
                   ctorLevel, ctorStage>>

\* create(), lines 63-65.
mergeCreationDispatch ==
    /\ pc = "runtime" /\ stack = <<>>
    /\ ifaceIdx > Len(program.iface)
    /\ edges' = mergeDispatch(edges)
    /\ pc' = "entries"
    /\ UNCHANGED <<program, m_contract, createdContracts, m_currentNode,
                   m_currentDispatch, ctorLevel, ctorStage, ifaceIdx, stack,
                   acceptLog>>

\* create(), lines 67-80.
addEntryPoints ==
    /\ pc = "entries"
    /\ edges' = addEach(edges, RuntimeDispatch,
                        entryPoints(program.iface, HasFallback, HasReceive))
    /\ m_contract' = 0
    \* solAssert(!nodeSet(m_currentNode), "Current node not properly reset.")
    /\ pc' = IF nodeSet(m_currentNode) THEN "aborted" ELSE "done"
    /\ UNCHANGED <<program, createdContracts, m_currentNode,
                   m_currentDispatch, ctorLevel, ctorStage, ifaceIdx, stack,
                   acceptLog>>

\* visit(Identifier).
visitIdentifier ==
    /\ pc \in {"creation", "runtime"} /\ AtItem
    /\ CurItem.kind = "Identifier"
    /\ IF CurItem.lookup = "Virtual"
        THEN processFunction(
                identifierTarget(CurItem.n, m_contract, Top.src),
                CurItem.flag, "Identifier")
        ELSE /\ stack' = Advance(stack)
             /\ UNCHANGED <<edges, m_currentNode, acceptLog, pc>>
    /\ UNCHANGED <<program, m_contract, createdContracts, m_currentDispatch,
                   ctorLevel, ctorStage, ifaceIdx>>

\* visit(NewExpression).
visitNewExpression ==
    /\ pc \in {"creation", "runtime"} /\ AtItem
    /\ CurItem.kind = "NewExpression"
    /\ createdContracts' = newExpressionCreated(createdContracts, CurItem)
    /\ stack' = Advance(stack)
    /\ UNCHANGED <<program, m_contract, edges, m_currentNode,
                   m_currentDispatch, pc, ctorLevel, ctorStage, ifaceIdx,
                   acceptLog>>

\* visit(MemberAccess).
visitMemberAccess ==
    /\ pc \in {"creation", "runtime"} /\ AtItem
    /\ CurItem.kind = "MemberAccess"
    /\ IF CurItem.lookup \in {"Bound", "Static", "Free", "Super"}
        THEN processFunction(memberAccessTarget(CurItem, m_contract),
                             CurItem.flag, "MemberAccess")
        ELSE /\ stack' = Advance(stack)
             /\ UNCHANGED <<edges, m_currentNode, acceptLog, pc>>
    /\ UNCHANGED <<program, m_contract, createdContracts, m_currentDispatch,
                   ctorLevel, ctorStage, ifaceIdx>>

\* endVisit(FunctionCall).
endVisitFunctionCall ==
    /\ pc \in {"creation", "runtime"} /\ AtItem
    /\ CurItem.kind = "FunctionCall"
    /\ edges' = functionCallEdge(edges, CurItem, m_currentDispatch, m_currentNode)
    /\ stack' = Advance(stack)
    /\ UNCHANGED <<program, m_contract, createdContracts, m_currentNode,
                   m_currentDispatch, pc, ctorLevel, ctorStage, ifaceIdx,
                   acceptLog>>

\* accept() returns: visitCallable line 187, or the next loop iteration of
\* visitConstructor; then the assertion of visit(Identifier), line 94.
leaveBody ==
    /\ pc \in {"creation", "runtime"}
    /\ stack # <<>> /\ ~AtItem
    /\ stack' = SubSeq(stack, 1, Len(stack) - 1)
    /\ m_currentNode' = restoredNode(Top, m_currentNode)
    /\ pc' = IF Top.via = "Identifier" /\ ~nodeSet(Top.previousNode)
                THEN "aborted" ELSE pc
    /\ UNCHANGED <<program, m_contract, edges, createdContracts,
                   m_currentDispatch, ctorLevel, ctorStage, ifaceIdx,
                   acceptLog>>

Next ==
    \/ create
    \/ visitStateVars
    \/ visitBaseArgs
    \/ visitConstructorBody
    \/ enterRuntime
    \/ visitInterfaceFunction
    \/ mergeCreationDispatch
    \/ addEntryPoints
    \/ visitIdentifier
    \/ visitNewExpression
    \/ visitMemberAccess
    \/ endVisitFunctionCall
    \/ leaveBody

Spec == Init /\ [][Next]_vars

\* create() runs to its end without waiting for anything: a step that can be
\* taken is taken.
SpecFair == InitCalls /\ [][Next]_vars /\ WF_vars(Next)

TypeOK ==
    /\ pc \in {"start", "creation", "runtime", "entries", "done", "aborted"}
    /\ m_currentDispatch \in {CreationDispatch, RuntimeDispatch}

(***************************************************************************)
(* Vocabulary of the properties.                                           *)
(***************************************************************************)
Done == pc = "done"
EdgeSet(E) == UNION {{<<k, v>> : v \in E[k]} : k \in DOMAIN E}

\* Nodes reachable from the nodes of S by following edges.
RECURSIVE ReachSet(_, _)
ReachSet(E, S) ==
    LET T == S \cup UNION {Callees(E, k) : k \in S}
    IN  IF T = S THEN S ELSE ReachSet(E, T)

\* The language's virtual lookup: the declaration of n in the most derived
\* contract of the linearization that declares n.
MostDerivedOverride(n) ==
    CHOOSE d \in Functions :
        /\ d[3] = n
        /\ \A e \in Functions :
            e[3] = n => PositionOf(d[2]) <= PositionOf(e[2])

\* The declaration a reference refers to, by the rules of the language.
RefTarget(item) ==
    CASE item.kind = "Identifier" -> MostDerivedOverride(item.n)
      [] item.lookup = "Super" ->
            CHOOSE d \in Functions :
                /\ d[3] = item.n /\ PositionOf(d[2]) > PositionOf(item.c)
                /\ \A e \in Functions :
                    (e[3] = item.n /\ PositionOf(e[2]) > PositionOf(item.c))
                        => PositionOf(d[2]) <= PositionOf(e[2])
      [] OTHER -> Fun(item.c, item.n)

IsRef(item) ==
    \/ item.kind = "Identifier" /\ item.lookup = "Virtual"
    \/ item.kind = "MemberAccess"
IsCallByName(item) ==
    item.kind = "Identifier" /\ item.lookup = "Virtual" /\ item.flag
IsValueRef(item) == IsRef(item) /\ ~item.flag

\* Positions of a body.
Refs(site) == {i \in 1..Len(BodyOf(site)) : IsRef(BodyOf(site)[i])}
\* Callables called by name in a body.
CalledByName(site) ==
    {RefTarget(BodyOf(site)[i]) :
        i \in {j \in 1..Len(BodyOf(site)) : IsCallByName(BodyOf(site)[j])}}
\* Callables referenced in a body, in whatever way.
Referenced(site) == {RefTarget(BodyOf(site)[i]) : i \in Refs(site)}

\* Callables called by name, directly or transitively, from the bodies S.
RECURSIVE CalledClosure(_)
CalledClosure(S) ==
    LET T == S \cup UNION {CalledByName(s) : s \in S}
    IN  IF T = S THEN S ELSE CalledClosure(T)
RECURSIVE ReferencedClosure(_)
ReferencedClosure(S) ==
    LET T == S \cup UNION {Referenced(s) : s \in S}
    IN  IF T = S THEN S ELSE ReferencedClosure(T)

\* The externally visible FunctionDefinitions, fallback and receive.
InterfaceFunctions ==
    {program.iface[i] : i \in 1..Len(program.iface)}
DeclaredEntryPoints ==
    InterfaceFunctions
    \cup (IF HasFallback THEN {FallbackFn} ELSE {})
    \cup (IF HasReceive THEN {ReceiveFn} ELSE {})
CreationParts ==
    {StateVarsOf(c) : c \in Contracts} \cup {BaseArgsOf(c) : c \in Contracts}
    \cup {Ctor(c) : c \in {d \in Contracts : HasCtor(d)}}
DeclaredCtors == {Ctor(c) : c \in {d \in Contracts : HasCtor(d)}}

\* History of the traversal.
Accepted(site) == {i \in 1..Len(acceptLog) : acceptLog[i][1] = site}
AcceptedIn(site, dispatch) ==
    \E i \in 1..Len(acceptLog) : acceptLog[i] = <<site, dispatch>>
Traversed == {acceptLog[i][1] : i \in 1..Len(acceptLog)}

(***************************************************************************)
(* C1: when build returns, every callee of CreationDispatch is a callee of *)
(* RuntimeDispatch, also for a contract without externally visible         *)
(* function, fallback and receive function.                                *)
(***************************************************************************)
C1_DispatchMerge ==
    Done => Callees(edges, CreationDispatch) \subseteq Callees(edges, RuntimeDispatch)

C1_Witness ==
    /\ Done
    /\ DeclaredEntryPoints = {}
    /\ Callees(edges, CreationDispatch) # {}

(***************************************************************************)
(* C2: when build returns, every declaration of the interface function     *)
(* list, the fallback and the receive function (if declared) is a direct   *)
(* callee of RuntimeDispatch, also when it was traversed or had an entry   *)
(* in edges before.                                                        *)
(***************************************************************************)
C2_EntryCompleteness ==
    Done => DeclaredEntryPoints \subseteq Callees(edges, RuntimeDispatch)

C2_Witness ==
    /\ Done
    /\ HasFallback
    /\ \E d \in InterfaceFunctions :
        /\ AcceptedIn(d, CreationDispatch)
        /\ d \in DOMAIN edges

(***************************************************************************)
(* C3: in the finished graph, every callable called by name, directly or   *)
(* transitively, from the body of an externally visible function is        *)
(* reachable from RuntimeDispatch.                                         *)
(***************************************************************************)
C3_RuntimeReachability ==
    Done =>
        CalledClosure({d \in InterfaceFunctions : d[1] = "fun"})
            \subseteq ReachSet(edges, {RuntimeDispatch})

(***************************************************************************)
(* C4: for every callable referenced from more than one call site in       *)
(* traversed code, the body is traversed exactly once (as claimed).        *)
(***************************************************************************)
\* The references to callable c in the traversed bodies.
RefSites(c) ==
    UNION {{<<s, i>> : i \in {j \in Refs(s) : RefTarget(BodyOf(s)[j]) = c}} :
            s \in Traversed}
Traversals(site) == Cardinality(Accepted(site))

C4_VisitOnce ==
    Done => \A c \in Functions :
                Cardinality(RefSites(c)) >= 2 => Traversals(c) = 1

\* References to c that were processed: a body traversed twice has its
\* references processed twice; create() processes an interface function once.
ProcessedRefs(c) ==
    LET perSite(s) ==
            Traversals(s) *
                Cardinality({j \in Refs(s) : RefTarget(BodyOf(s)[j]) = c})
        RECURSIVE Sum(_)
        Sum(S) == IF S = {} THEN 0
                  ELSE LET s == CHOOSE x \in S : TRUE
                       IN  perSite(s) + Sum(S \ {s})
    IN  Sum(Traversed) + (IF c \in InterfaceFunctions THEN 1 ELSE 0)

(***************************************************************************)
(* C4, amended: a callable that has an entry in edges when build returns   *)
(* and does not refer to itself is traversed exactly once, however many    *)
(* call sites refer to it; with an entry and a reference to itself it is   *)
(* traversed at most twice; a callable that never gets an entry is         *)
(* traversed once for every processed reference to it.                     *)
(***************************************************************************)
C4_VisitOnceWithEntry ==
    Done => \A c \in Functions :
                IF c \in DOMAIN edges
                    THEN /\ Traversals(c) \in {1, 2}
                         /\ c \notin Referenced(c) => Traversals(c) = 1
                    ELSE Traversals(c) = ProcessedRefs(c)

C4_Witness ==
    /\ Done
    /\ \E c \in Functions :
        /\ c \in DOMAIN edges /\ c \notin Referenced(c)
        /\ Cardinality(RefSites(c)) >= 2
    /\ \E c \in Functions : c \notin DOMAIN edges /\ Traversals(c) >= 2

(***************************************************************************)
(* C5: when build returns, a constructor, and any callable referenced only *)
(* from creation-phase code that is no externally visible function,        *)
(* fallback or receive function, is no callee of RuntimeDispatch, whether  *)
(* it is called directly or referenced as a value (as claimed).            *)
(***************************************************************************)
\* Callables that only the creation code refers to.
CreationOnly ==
    (DeclaredCtors \cup (ReferencedClosure(CreationParts) \cap Functions))
        \ ReferencedClosure(DeclaredEntryPoints)

\* Callables some body of the contract refers to as a value.
ValueReferenced ==
    UNION {{RefTarget(BodyOf(s)[i]) :
                i \in {j \in Refs(s) : IsValueRef(BodyOf(s)[j])}} : s \in Sites}

C5_ConstructionIsolation ==
    Done => \A c \in CreationOnly : c \notin Callees(edges, RuntimeDispatch)

(***************************************************************************)
(* C5, amended: when build returns, a constructor, and any callable        *)
(* referenced only from creation-phase code, only by direct calls, that is *)
(* no externally visible function, fallback or receive function, is no     *)
(* callee of RuntimeDispatch.                                              *)
(***************************************************************************)
C5_ConstructionIsolationDirect ==
    Done => \A c \in CreationOnly \ ValueReferenced :
                c \notin Callees(edges, RuntimeDispatch)

C5_Witness ==
    /\ Done
    /\ DeclaredCtors # {}
    /\ \E c \in (CreationOnly \cap Functions) \ ValueReferenced :
            AcceptedIn(c, CreationDispatch)

(***************************************************************************)
(* C6: the creation phase visits, from the last contract of the            *)
(* linearization to the first, the state variables, the base-constructor   *)
(* arguments and the constructor of each contract, each exactly once, and  *)
(* every declared constructor becomes a direct callee of CreationRoot.     *)
(***************************************************************************)
RECURSIVE ExpectedCreationOrder(_)
ExpectedCreationOrder(i) ==
    IF i > NumContracts THEN <<>>
    ELSE LET c == linearizedBaseContracts[i]
         IN  ExpectedCreationOrder(i + 1)
                \o <<StateVarsOf(c), BaseArgsOf(c)>>
                \o (IF HasCtor(c) THEN <<Ctor(c)>> ELSE <<>>)

CreationLog ==
    LET parts == SelectSeq(acceptLog,
                    LAMBDA e : e[1][1] \in {"stateVars", "baseArgs", "ctor"})
    IN  [i \in 1..Len(parts) |-> parts[i][1]]

C6_BaseFirstOrder ==
    LET expected == ExpectedCreationOrder(1)
    IN  /\ Len(CreationLog) <= Len(expected)
        /\ CreationLog = SubSeq(expected, 1, Len(CreationLog))
        /\ pc \in {"runtime", "entries", "done"} =>
            /\ CreationLog = expected
            /\ DeclaredCtors \subseteq Callees(edges, CreationRoot)

C6_Witness ==
    /\ Done
    /\ Cardinality(DeclaredCtors) >= 3

(***************************************************************************)
(* C7: a call through an internal function value without declaration adds  *)
(* one edge, from the dispatch node of the phase to the call expression,   *)
(* and no edge from the current caller and no edge to a declaration.       *)
(***************************************************************************)
C7_IndirectCallEdge ==
    [][(/\ AtItem
        /\ CurItem.kind = "FunctionCall"
        /\ CurItem.lookup = "Internal" /\ ~CurItem.flag)
        => LET dispatch == IF pc = "runtime" THEN RuntimeDispatch
                                             ELSE CreationDispatch
               edge == <<dispatch, CallExpr(CurItem.n)>>
           IN  /\ edge \in EdgeSet(edges')
               /\ EdgeSet(edges) \subseteq EdgeSet(edges')
               /\ EdgeSet(edges') \ EdgeSet(edges) \subseteq {edge}
               /\ (DOMAIN edges') \ (DOMAIN edges) \subseteq {dispatch}]_vars

C7_Witness ==
    /\ pc = "runtime"
    /\ CallExpr("e1") \in Callees(edges, RuntimeDispatch)
    /\ CallExpr("e1") \notin Callees(edges, CreationDispatch)

(***************************************************************************)
(* C8: a construction expression new Other(...) puts Other in              *)
(* createdContracts and leaves edges alone; when build returns,            *)
(* createdContracts holds the contract of every construction expression of *)
(* every traversed body.                                                   *)
(***************************************************************************)
CreatedIn(site) ==
    {BodyOf(site)[i].n :
        i \in {j \in 1..Len(BodyOf(site)) :
                    /\ BodyOf(site)[j].kind = "NewExpression"
                    /\ BodyOf(site)[j].flag}}

C8_NewExpression ==
    /\ [][(AtItem /\ CurItem.kind = "NewExpression" /\ CurItem.flag)
            => /\ createdContracts' = createdContracts \cup {CurItem.n}
               /\ edges' = edges]_vars
    /\ [](Done => \A s \in Traversed : CreatedIn(s) \subseteq createdContracts)

C8_Witness ==
    /\ Done
    /\ "Other" \in createdContracts

(***************************************************************************)
(* C9: in every state of build, Unset is no key of edges, also while an    *)
(* externally visible function is traversed as a root.                     *)
(***************************************************************************)
C9_UnsetNeverKey == Unset \notin DOMAIN edges

C9_Witness ==
    /\ stack # <<>>
    /\ stack[1].via = "create"
    /\ stack[1].previousNode = Unset
    /\ stack[1].src \in DOMAIN edges

(***************************************************************************)
(* C10: a call by name is resolved by virtual lookup from the contract     *)
(* being assembled, whichever contract declares the calling body: the      *)
(* callable traversed and every edge added for the call have the most      *)
(* derived override as target, never the overridden declaration.           *)
(***************************************************************************)
C10_VirtualLookup ==
    [][(/\ AtItem
        /\ CurItem.kind = "Identifier" /\ CurItem.lookup = "Virtual")
        => LET target == MostDerivedOverride(CurItem.n)
           IN  /\ \A e \in EdgeSet(edges') \ EdgeSet(edges) : e[2] = target
               /\ acceptLog' # acceptLog =>
                    acceptLog'[Len(acceptLog')][1] = target]_vars

\* The body of the overridden f, inherited from the most base contract, has
\* called f by name.
C10_Witness ==
    LET A_f == Fun(NumContracts, "f")
        B_f == Fun(NumContracts - 1, "f")
    IN  /\ \E i \in 1..Len(stack) :
            /\ stack[i].src = A_f
            /\ stack[i].pos >= 2
            /\ BodyOf(A_f)[1] = Call("f")
        /\ B_f \in Traversed

(***************************************************************************)
(* C11: no traversal of a callable's body begins while the callable has an *)
(* entry in edges, whatever the shape of the call (as claimed).  The body  *)
(* begins with accept(), after visitCallable has added the caller's edge.  *)
(***************************************************************************)
\* A step that begins the traversal of the body of a callable.
BeginsTraversal ==
    /\ Len(acceptLog') = Len(acceptLog) + 1
    /\ acceptLog'[Len(acceptLog')][1][1] = "fun"
Begun == acceptLog'[Len(acceptLog')][1]

C11_NoTraversalWithEntry ==
    [][BeginsTraversal => Begun \notin DOMAIN edges']_vars

(***************************************************************************)
(* C11, amended: no traversal of a callable's body begins for a callable   *)
(* that had an entry in edges when the reference to it was processed; when *)
(* the body begins the callable has an entry only if the reference is in   *)
(* its own body, the entry being made by visitCallable with the edge from  *)
(* the callable to itself.                                                 *)
(***************************************************************************)
C11_NoTraversalOfExpanded ==
    [][BeginsTraversal =>
        /\ Begun \notin DOMAIN edges
        /\ Begun \in DOMAIN edges' =>
            /\ m_currentNode = Begun
            /\ Begun \in edges'[Begun]]_vars

\* A callable is traversed from its own body, and a callable with an entry
\* has been referred to again.
C11_Witness ==
    /\ \E i \in 1..(Len(stack) - 1) :
        /\ stack[i].src = stack[i + 1].src
        /\ stack[i].src \in DOMAIN edges
    /\ \E c \in (Functions \cap DOMAIN edges) \ {Top.src} :
        Cardinality(RefSites(c)) >= 1

(***************************************************************************)
(* C12: in every state, a key of edges is CreationRoot, CreationDispatch,  *)
(* RuntimeDispatch or a callable whose traversal has started, and every    *)
(* callee of a callable is the target of a reference in the body of that   *)
(* callable.                                                               *)
(***************************************************************************)
C12_NoFabricatedEdges ==
    /\ DOMAIN edges \subseteq
            {CreationRoot, CreationDispatch, RuntimeDispatch}
            \cup {c \in Traversed : c[1] = "fun"}
    /\ \A k \in DOMAIN edges :
            k[1] = "fun" => edges[k] \subseteq Referenced(k)

C12_Witness ==
    \E c \in Functions :
        /\ c \in DOMAIN edges
        /\ Cardinality(edges[c]) >= 2

(***************************************************************************)
(* C13: build terminates for every input, with self-recursive and mutually *)
(* recursive callables: every run reaches the return of create().          *)
(***************************************************************************)
C13_Terminates == <>Done

\* A finished build of a contract with a cycle of calls through two
\* callables and a callable that calls itself.
C13_Witness ==
    /\ Done
    /\ \E c \in Functions \cap DOMAIN edges :
        \E d \in (Functions \cap edges[c]) \ {c} :
            d \in Traversed /\ c \in Referenced(d)
    /\ \E c \in Functions \cap DOMAIN edges : c \in edges[c]

(***************************************************************************)
(* C14: every visitCallable leaves the current caller as it found it, a    *)
(* reference by name is processed with a current caller other than Unset,  *)
(* and the current caller is Unset when build returns; the assertions of   *)
(* create and of visit(Identifier) never fail.                             *)
(***************************************************************************)
\* The current caller while the i innermost-last traversals of the stack
\* are open.
CallerAt(i) ==
    IF i = 0 THEN (IF pc = "creation" THEN CreationRoot ELSE Unset)
    ELSE IF stack[i].via = "visitConstructor" THEN CreationRoot
    ELSE stack[i].src

C14_CallerDiscipline ==
    /\ pc # "aborted"
    /\ m_currentNode = CallerAt(Len(stack))
    /\ \A i \in 1..Len(stack) :
        stack[i].via # "visitConstructor" =>
            stack[i].previousNode = CallerAt(i - 1)
    /\ (AtItem /\ CurItem.kind = "Identifier" /\ CurItem.lookup = "Virtual")
            => nodeSet(m_currentNode)
    /\ Done => m_currentNode = Unset

\* A build has returned that traversed a callable from inside another one
\* in the runtime phase.
C14_Witness ==
    /\ Done
    /\ \E c \in Functions \ InterfaceFunctions :
            AcceptedIn(c, RuntimeDispatch)

(***************************************************************************)
(* C15: the dispatch context is CreationDispatch during the creation phase *)
(* and RuntimeDispatch from then on, and after the creation phase no       *)
(* callee is added to CreationRoot or to CreationDispatch.                 *)
(***************************************************************************)
C15_DispatchPhases ==
    /\ [](pc \in {"start", "creation"} => m_currentDispatch = CreationDispatch)
    /\ [](pc \in {"runtime", "entries", "done"}
            => m_currentDispatch = RuntimeDispatch)
    /\ [][(pc \in {"runtime", "entries", "done"}) =>
            (/\ m_currentDispatch' = RuntimeDispatch
             /\ Callees(edges', CreationRoot) = Callees(edges, CreationRoot)
             /\ Callees(edges', CreationDispatch) =
                    Callees(edges, CreationDispatch))]_vars

C15_Witness ==
    /\ Done
    /\ Callees(edges, CreationDispatch) # {}
    /\ Callees(edges, RuntimeDispatch)
            \ (Callees(edges, CreationDispatch) \cup DeclaredEntryPoints) # {}

(***************************************************************************)
(* C16: once a traversal of a callable's body has completed, the outgoing  *)
(* edges of the callable, or the absence of an entry for it, never change. *)
(***************************************************************************)
Completed(c) ==
    Traversals(c) > Cardinality({i \in 1..Len(stack) : stack[i].src = c})

C16_EdgesStable ==
    [][(\A c \in Functions :
        Completed(c) =>
            /\ (c \in DOMAIN edges') = (c \in DOMAIN edges)
            /\ Callees(edges', c) = Callees(edges, c))]_vars

\* Callables with and without an entry were referred to again after their
\* traversal had completed.
C16_Witness ==
    /\ Done
    /\ \E c \in Functions \cap DOMAIN edges : Cardinality(RefSites(c)) >= 2
    /\ \E c \in Functions \ DOMAIN edges : Traversals(c) >= 2

(***************************************************************************)
(* C17: for every reference to a callable that is no direct call, the      *)
(* finished graph has the callable as a callee of RuntimeDispatch, and of  *)
(* CreationDispatch when the reference is traversed in the creation phase. *)
(***************************************************************************)
C17_ValueRefDispatched ==
    Done => \A s \in Traversed :
              \A i \in {j \in Refs(s) : IsValueRef(BodyOf(s)[j])} :
                LET target == RefTarget(BodyOf(s)[i])
                IN  /\ target \in Callees(edges, RuntimeDispatch)
                    /\ AcceptedIn(s, CreationDispatch) =>
                            target \in Callees(edges, CreationDispatch)

(***************************************************************************)
(* C18: in the finished graph, every callable called by name from the body *)
(* of the fallback or of the receive function is reachable from            *)
(* RuntimeDispatch.                                                        *)
(***************************************************************************)
C18_FallbackReachability ==
    Done =>
        CalledClosure((IF HasFallback THEN {FallbackFn} ELSE {})
                        \cup (IF HasReceive THEN {ReceiveFn} ELSE {}))
            \subseteq ReachSet(edges, {RuntimeDispatch})

(***************************************************************************)
(* C19: every callable whose body was traversed in the creation phase is   *)
(* reachable from CreationRoot.                                            *)
(***************************************************************************)
C19_CreationReachability ==
    \A i \in 1..Len(acceptLog) :
        (/\ acceptLog[i][2] = CreationDispatch
         /\ acceptLog[i][1][1] \in {"fun", "ctor"})
            => acceptLog[i][1] \in ReachSet(edges, {CreationRoot})

\* A callable traversed in the creation phase that is no direct callee of
\* CreationRoot.
C19_Witness ==
    /\ Done
    /\ \E c \in Functions :
        /\ AcceptedIn(c, CreationDispatch)
        /\ c \notin Callees(edges, CreationRoot)

(***************************************************************************)
(* C20: the current caller stays CreationRoot while a constructor body is  *)
(* traversed: no constructor becomes a key of edges, and a callable whose  *)
(* traversal starts from a constructor body, a state variable or a base    *)
(* argument becomes a callee of CreationRoot, not of the constructor.      *)
(***************************************************************************)
C20_ConstructorKeepsRoot ==
    /\ [](\A c \in Contracts : Ctor(c) \notin DOMAIN edges)
    /\ []((stack # <<>> /\ Top.via = "visitConstructor")
            => m_currentNode = CreationRoot)
    /\ [][(AtItem /\ Top.via = "visitConstructor" /\ BeginsTraversal)
            => Begun \in Callees(edges', CreationRoot)]_vars

C20_Witness ==
    /\ Len(stack) >= 2
    /\ stack[1].src[1] = "ctor"
    /\ stack[2].src \in Callees(edges, CreationRoot)

====
